---- MODULE Spec2Model ----
(***************************************************************************)
(* Model of package go_unique_ts (src/unique.go): the process-wide         *)
(* generation state (hwAddr, seqNo), its one-time init(), the three        *)
(* constructors, and the String()/FromString() codec.                      *)
(*                                                                         *)
(* Representation.  TLC integers are 32 bits wide, so the program's wide   *)
(* integers are kept as big-endian byte tuples, which is also what the     *)
(* codec reads out of them:                                                *)
(*   int64  Timestamp : 8 bytes, two's complement, most significant first  *)
(*   uint32 seqNo     : 4 bytes, most significant first                    *)
(*   [6]byte hwAddr   : 6 bytes, stored order                              *)
(* A Go string is the tuple of its byte values ('0' = 48, 'a' = 97,        *)
(* '-' = 45, NUL = 0); Go compares strings bytewise.                       *)
(***************************************************************************)
EXTENDS Integers, Sequences, FiniteSets, TLC

\* ------------------------------------------------------------------ bounds
\* Number of goroutines calling NewUniqueTimestamp concurrently.
NumThreads == 2
\* Number of identifiers the callers take in one run.
MaxObserved == 2
\* Number of times a batch of earlier/unobserved calls may be accounted.
MaxBulk == 1

\* ------------------------------------------------------- bytes and strings
DASH == 45
NUL == 0
PLUS == 43

\* const hexString = "0123456789abcdef"
hexString == <<48, 49, 50, 51, 52, 53, 54, 55, 56, 57, 97, 98, 99, 100, 101, 102>>

Threads == 1..NumThreads

Zero4 == <<0, 0, 0, 0>>
Zero6 == <<0, 0, 0, 0, 0, 0>>
Zero8 == <<0, 0, 0, 0, 0, 0, 0, 0>>
Ones4 == <<255, 255, 255, 255>>
Ones6 == <<255, 255, 255, 255, 255, 255>>
One32 == <<0, 0, 0, 1>>

\* Go's string comparison a < b: bytewise, a proper prefix is smaller.
RECURSIVE StrLess(_, _)
StrLess(a, b) ==
    IF b = <<>> THEN FALSE
    ELSE IF a = <<>> THEN TRUE
    ELSE IF a[1] # b[1] THEN a[1] < b[1]
    ELSE StrLess(Tail(a), Tail(b))

\* b | 0x01 on a byte.
OrOne(b) == IF b % 2 = 0 THEN b + 1 ELSE b

\* ------------------------------------------------------- wide arithmetic
\* a + b on big-endian byte tuples of equal length, wrapping at the width
\* (Go's unsigned and signed integer addition both wrap).
RECURSIVE AddCarry(_, _, _)
AddCarry(a, b, carry) ==
    IF a = <<>> THEN <<>>
    ELSE LET n == Len(a)
             s == a[n] + b[n] + carry
         IN  Append(AddCarry(SubSeq(a, 1, n - 1), SubSeq(b, 1, n - 1), s \div 256),
                    s % 256)

\* A mutant of the counter update: the store of the new value is lost.
AddUint32Lost(v, delta) == v

\* A mutant of the counter update: the counter sticks at its maximum.
AddUint32Saturating(v, delta) ==
    IF StrLess(AddCarry(v, delta, 0), v) THEN Ones4 ELSE AddCarry(v, delta, 0)

\* atomic.AddUint32(&seqNo, delta): the new value, modulo 2^32.
AddUint32(v, delta) == AddCarry(v, delta, 0)

\* timestamp + 1 on int64 (wraps from MaxInt64 to MinInt64).
Succ64(t) == AddCarry(t, <<0, 0, 0, 0, 0, 0, 0, 1>>, 0)

\* ------------------------------------------------------------ constructors
UniqueTimestamp(ts, seq, hw) == [Timestamp |-> ts, seqNo |-> seq, hwAddr |-> hw]

NewUniqueTimestamp(timestamp, seq, hw) == UniqueTimestamp(timestamp, seq, hw)

MinUniqueTimestamp(timestamp) == UniqueTimestamp(timestamp, Zero4, Zero6)

MaxUniqueTimestamp(timestamp) == UniqueTimestamp(timestamp, Ones4, Ones6)

\* ------------------------------------------------------------------ String
\* r[pos] = hexString[b>>4]; r[pos+1] = hexString[b&0xF]   (pos is 0-indexed)
PutHex(r, pos, b) ==
    [r EXCEPT ![pos + 1] = hexString[(b \div 16) + 1],
              ![pos + 2] = hexString[(b % 16) + 1]]

\* A mutant of the timestamp byte selection: the shift is 48-(i*8), one byte
\* too far.
TsByteShifted(u, i) == u.Timestamp[2 + i]

\* (u.Timestamp >> uint(40-(i*8))) & 0xFF
TsByte(u, i) == u.Timestamp[3 + i]

\* (u.seqNo >> uint(24-(i*8))) & 0xFF
SeqByte(u, i) == u.seqNo[1 + i]

\* for i := 0; i < 6; i++ { ... r[2*i], r[2*i+1] ... }
RECURSIVE TsLoop(_, _, _)
TsLoop(r, u, i) ==
    IF i >= 6 THEN r ELSE TsLoop(PutHex(r, 2 * i, TsByte(u, i)), u, i + 1)

\* for i := 0; i < 4; i++ { ... r[13+2*i], r[14+2*i] ... }
RECURSIVE SeqLoop(_, _, _)
SeqLoop(r, u, i) ==
    IF i >= 4 THEN r ELSE SeqLoop(PutHex(r, 13 + 2 * i, SeqByte(u, i)), u, i + 1)

\* for i, b := range u.hwAddr { ... r[21+2*i], r[22+2*i] ... }
RECURSIVE HwLoop(_, _, _)
HwLoop(r, u, i) ==
    IF i >= 6 THEN r ELSE HwLoop(PutHex(r, 21 + 2 * i, u.hwAddr[i + 1]), u, i + 1)

\* func (u UniqueTimestamp) String() string, statement by statement.
String(u) ==
    LET r0 == [k \in 1..34 |-> NUL]              \* make([]byte, 34)
        r1 == TsLoop(r0, u, 0)
        r2 == [r1 EXCEPT ![12 + 1] = DASH]       \* r[12] = '-'
        r3 == SeqLoop(r2, u, 0)
        r4 == [r3 EXCEPT ![20 + 1] = DASH]       \* r[20] = '-'
        r5 == HwLoop(r4, u, 0)
    IN  r5

\* -------------------------------------------------------------- FromString
\* strings.Split(val, "-"): the parts between the separators, always at
\* least one part.
RECURSIVE SplitFrom(_, _, _)
SplitFrom(s, cur, acc) ==
    IF s = <<>> THEN Append(acc, cur)
    ELSE IF s[1] = DASH THEN SplitFrom(Tail(s), <<>>, Append(acc, cur))
    ELSE SplitFrom(Tail(s), Append(cur, s[1]), acc)

Split(val) == SplitFrom(val, <<>>, <<>>)

\* The value of a base-16 digit as strconv reads it (either case), -1 for
\* any other byte.
HexVal(c) ==
    IF c >= 48 /\ c <= 57 THEN c - 48
    ELSE IF c >= 97 /\ c <= 102 THEN c - 87
    ELSE IF c >= 65 /\ c <= 70 THEN c - 55
    ELSE -1

RECURSIVE StripZeros(_)
StripZeros(n) == IF n # <<>> /\ n[1] = 0 THEN StripZeros(Tail(n)) ELSE n

\* strconv.ParseUint(s, 16, bitSize): fails on the empty string, on a byte
\* that is no hex digit, and on a value of more than bitSize bits; leading
\* zeros are accepted.  val is the value as bitSize/8 big-endian bytes.
ParseUint(s, bitSize) ==
    LET digits == [k \in 1..Len(s) |-> HexVal(s[k])]
        sig    == StripZeros(digits)
        width  == bitSize \div 4
        nib    == [k \in 1..width |->
                     IF k <= width - Len(sig) THEN 0 ELSE sig[k - (width - Len(sig))]]
    IN  IF s = <<>> \/ (\E k \in 1..Len(s) : digits[k] = -1) \/ Len(sig) > width
        THEN [ok |-> FALSE, val |-> <<>>]
        ELSE [ok |-> TRUE,
              val |-> [k \in 1..(bitSize \div 8) |-> 16 * nib[2 * k - 1] + nib[2 * k]]]

\* strconv.ParseInt(s, 16, 64): an optional leading '+', then ParseUint, and
\* a range error for a value of 2^63 or more.  (A leading '-' never reaches
\* it here: FromString splits on '-'.)
ParseInt(s) ==
    LET body == IF s # <<>> /\ s[1] = PLUS THEN Tail(s) ELSE s
        un   == ParseUint(body, 64)
    IN  IF s = <<>> \/ ~un.ok \/ un.val[1] >= 128
        THEN [ok |-> FALSE, val |-> <<>>]
        ELSE un

\* for i := range u.hwAddr { b, err := strconv.ParseUint(parts[2][2*i:2*i+2], 16, 8) ... }
\* The slice expression panics when 2*i+2 exceeds len(parts[2]).
RECURSIVE HwParseLoop(_, _, _)
HwParseLoop(u, p, i) ==
    IF i >= 6 THEN [u |-> u, err |-> "nil", panicked |-> FALSE]
    ELSE IF 2 * i + 2 > Len(p)
         THEN [u |-> u, err |-> "slice bounds out of range", panicked |-> TRUE]
    ELSE LET b == ParseUint(SubSeq(p, 2 * i + 1, 2 * i + 2), 8)
         IN  IF ~b.ok
             THEN [u |-> u, err |-> "could not parse hw addr part", panicked |-> FALSE]
             ELSE HwParseLoop([u EXCEPT !.hwAddr[i + 1] = b.val[1]], p, i + 1)

\* A mutant of the parser: the parsed timestamp is never stored in the
\* receiver.
FromStringNoTimestamp(u, val) ==
    LET parts == Split(val)
    IN  IF Len(parts) # 3 \/ ~ParseInt(parts[1]).ok \/ ~ParseUint(parts[2], 32).ok
        THEN [u |-> u, err |-> "error", panicked |-> FALSE]
        ELSE HwParseLoop([u EXCEPT !.seqNo = ParseUint(parts[2], 32).val], parts[3], 0)

\* func (u *UniqueTimestamp) FromString(val string) error.  The result holds
\* the receiver as the call leaves it, the error ("nil" for none) and
\* whether the call ended in a run-time panic instead of returning.
FromString(u, val) ==
    LET parts     == Split(val)
        timestamp == ParseInt(parts[1])
        seq       == ParseUint(parts[2], 32)
        u1        == [u EXCEPT !.Timestamp = timestamp.val]
        u2        == [u1 EXCEPT !.seqNo = seq.val]
    IN  IF Len(parts) # 3
        THEN [u |-> u, err |-> "timestamp should contain 2 -", panicked |-> FALSE]
        ELSE IF ~timestamp.ok
        THEN [u |-> u, err |-> "could not parse timestamp part", panicked |-> FALSE]
        ELSE IF ~seq.ok
        THEN [u |-> u1, err |-> "could not parse seqno part", panicked |-> FALSE]
        ELSE HwParseLoop(u2, parts[3], 0)

\* ------------------------------------------------------------ input samples
\* Hex digits (values 0..15) as the lowercase characters String() writes.
Hex(n) == [k \in 1..Len(n) |-> hexString[n[k] + 1]]

HwSample == <<196, 44, 3, 25, 189, 190>>        \* c4:2c:03:19:bd:be

\* What net.Interfaces() may report: interfaces in order, each with its
\* loopback flag and hardware address (of any length).
InterfaceSamples ==
    { <<>>,
      << [loopback |-> TRUE,  addr |-> <<>>],
         [loopback |-> FALSE, addr |-> <<>>],
         [loopback |-> FALSE, addr |-> HwSample] >>,
      << [loopback |-> TRUE,  addr |-> Ones6],
         [loopback |-> FALSE, addr |-> <<0, 0, 0, 0>>] >> }

\* What the random source may deliver for hwAddr and for clockSeqRand.
RandHwSamples == { <<254, 255, 255, 255, 255, 255>> }
RandSeedSamples == { <<0, 0>>, <<0, 255>> }

\* Timestamps the callers ask for (they also ask for issued timestamp + 1):
\* 0x543cef9f, -1, MaxInt64, -2.
TsSamples ==
    { <<0, 0, 0, 0, 84, 60, 239, 159>>,
      <<255, 255, 255, 255, 255, 255, 255, 255>>,
      <<127, 255, 255, 255, 255, 255, 255, 255>>,
      <<255, 255, 255, 255, 255, 255, 255, 254>> }

\* Sizes of a batch of calls whose results nobody looks at: 2^32 - 1 and
\* 2^32 - 2 - 0xff00.
BulkSizes == { Ones4, <<255, 255, 0, 254>> }

TsPart  == Hex(<<0, 0, 0, 0, 0, 5, 4, 3, 12, 14, 15, 9>>)      \* 00000543cef9
SeqPart == Hex(<<0, 0, 0, 0, 0, 11, 9, 13>>)                   \* 00000b9d
HwPart  == Hex(<<12, 4, 2, 12, 0, 3, 1, 9, 11, 13, 11, 14>>)   \* c42c0319bdbe
Join3(a, b, c) == a \o <<DASH>> \o b \o <<DASH>> \o c

\* Strings handed to FromString besides the outputs of String(): every
\* combination of a first, a second and a third part, and strings with
\* another number of separators.
TsParts ==
    { TsPart,
      <<122, 122>>,                                        \* zz
      <<>>,
      Hex(<<8>> \o Zero8 \o Zero6 \o <<0>>),               \* 2^63: out of range
      <<PLUS, 53, 52, 51, 67, 69, 70, 57>> }               \* +543CEF9

SeqParts ==
    { SeqPart,
      Hex(<<0, 0, 0, 0, 11, 9, 13>>),                      \* 0000b9d
      Hex(<<1, 0, 0, 0, 0, 0, 0, 0, 0>>),                  \* 2^32: out of range
      <<66, 57, 71>> }                                     \* B9G

HwParts ==
    { HwPart,
      <<>>,
      SubSeq(HwPart, 1, 10),
      SubSeq(HwPart, 1, 11),
      HwPart \o Hex(<<0, 0>>),
      HwPart \o <<122>>,
      HwPart \o <<NUL>>,
      <<122, 122>>,
      SubSeq(HwPart, 1, 10) \o <<122, 122>>,
      <<67, 52, 50, 67, 48, 51, 49, 57, 66, 68, 66, 69>> } \* C42C0319BDBE

ParseSamples ==
    { Join3(a, b, c) : a \in TsParts, b \in SeqParts, c \in HwParts }
    \cup { <<>>,
           TsPart,
           TsPart \o <<DASH>> \o Hex(<<0, 0, 0, 0, 11, 9, 13>>),   \* 00000543cef9-0000b9d
           Join3(TsPart, SeqPart, HwPart) \o <<DASH>> \o HwPart }

\* -------------------------------------------------------------------- state
VARIABLES
    phase,      \* "boot" before init(), "ready" after it, "panicked" if it panicked
    hwAddr,     \* var hwAddr [6]byte
    seqNo,      \* var seqNo uint32
    hwSrc,      \* where init() took hwAddr from: "unset", "interface", "random"
    seedSrc,    \* "unset", "random" (both bytes read) or "failed" (read error ignored)
    seed,       \* seqNo as init() left it
    calls,      \* number of NewUniqueTimestamp calls so far (5 bytes, big-endian)
    pc,         \* per goroutine: "idle", "add" (called), "ret" (counter advanced)
    arg,        \* per goroutine: the timestamp argument
    got,        \* per goroutine: the value atomic.AddUint32 returned, and the call's ordinal
    issued,     \* the identifiers returned so far, each with its call's ordinal
    bulks,      \* number of batches accounted
    codec       \* the last String()/FromString() call and its result

vars == <<phase, hwAddr, seqNo, hwSrc, seedSrc, seed, calls, pc, arg, got,
          issued, bulks, codec>>

genVars == <<phase, hwAddr, seqNo, hwSrc, seedSrc, seed, calls, pc, arg, got,
             issued, bulks>>

ZeroU == UniqueTimestamp(Zero8, Zero4, Zero6)       \* UniqueTimestamp{}
NoCodec == [op |-> "none", u |-> ZeroU, s |-> <<>>, val |-> <<>>,
            res |-> [u |-> ZeroU, err |-> "nil", panicked |-> FALSE]]
Zero5 == <<0, 0, 0, 0, 0>>

Init ==
    /\ phase = "boot"
    /\ hwAddr = Zero6
    /\ seqNo = Zero4
    /\ hwSrc = "unset"
    /\ seedSrc = "unset"
    /\ seed = Zero4
    /\ calls = Zero5
    /\ pc = [t \in Threads |-> "idle"]
    /\ arg = [t \in Threads |-> Zero8]
    /\ got = [t \in Threads |-> [seq |-> Zero4, n |-> Zero5]]
    /\ issued = {}
    /\ bulks = 0
    /\ codec = NoCodec

\* -------------------------------------------------------------------- init()
\* The first interface that is not a loopback and has a hardware address
\* (lines 44-50); <<>> when there is none.
RECURSIVE FirstHardwareAddr(_)
FirstHardwareAddr(interfaces) ==
    IF interfaces = <<>> THEN <<>>
    ELSE IF ~interfaces[1].loopback /\ Len(interfaces[1].addr) > 0
         THEN interfaces[1].addr
    ELSE FirstHardwareAddr(Tail(interfaces))

\* copy(dst[:], src): the first min(len(dst), len(src)) bytes.
Copy(dst, src) == [k \in 1..Len(dst) |-> IF k <= Len(src) THEN src[k] ELSE dst[k]]

\* uint32(clockSeqRand[1])<<8 | uint32(clockSeqRand[0])
SeedOf(clockSeqRand) == <<0, 0, clockSeqRand[2], clockSeqRand[1]>>

\* func init().  Its inputs are what the environment answers: whether
\* net.Interfaces() fails, the interfaces it lists, whether and what the
\* random source delivers for hwAddr, and how many of the two seed bytes the
\* random source delivers (fewer than 2: io.ReadFull returns an error and
\* the remaining bytes of clockSeqRand keep their zero value; line 65 drops
\* that error).
RunInit ==
    /\ phase = "boot"
    /\ \E ifErr \in BOOLEAN, interfaces \in InterfaceSamples,
          hwOk \in BOOLEAN, hwRand \in RandHwSamples,
          nread \in 0..2, seedRand \in RandSeedSamples :
        LET found     == IF ifErr THEN <<>> ELSE FirstHardwareAddr(interfaces)
            hwAddrSet == found # <<>>
            clockSeqRand == [k \in 1..2 |-> IF k <= nread THEN seedRand[k] ELSE 0]
        IN  IF ~hwAddrSet /\ ~hwOk
            THEN /\ phase' = "panicked"                       \* panic(err)
                 /\ hwSrc' = "unset"
                 /\ seedSrc' = "unset"
                 /\ UNCHANGED <<hwAddr, seqNo, seed>>
            ELSE /\ phase' = "ready"
                 /\ hwAddr' = IF hwAddrSet THEN Copy(hwAddr, found)
                              ELSE [hwRand EXCEPT ![1] = OrOne(hwRand[1])]
                 /\ hwSrc' = IF hwAddrSet THEN "interface" ELSE "random"
                 /\ seqNo' = SeedOf(clockSeqRand)
                 /\ seed' = SeedOf(clockSeqRand)
                 /\ seedSrc' = IF nread = 2 THEN "random" ELSE "failed"
    /\ UNCHANGED <<calls, pc, arg, got, issued, bulks, codec>>

\* ------------------------------------------------------- NewUniqueTimestamp
Idle == \A t \in Threads : pc[t] = "idle"

\* The call's ordinal does not fit TLC's integers: 5 bytes, big-endian.
Inc5(n) == AddCarry(n, <<0, 0, 0, 0, 1>>, 0)

\* A goroutine calls NewUniqueTimestamp(timestamp).
Call(t) ==
    /\ phase = "ready"
    /\ codec.op = "none"
    /\ pc[t] = "idle"
    /\ \A x \in Threads : x < t => pc[x] # "idle"     \* the first free goroutine
    /\ Cardinality(issued) + Cardinality({x \in Threads : pc[x] # "idle"}) < MaxObserved
    /\ \E timestamp \in TsSamples \cup { Succ64(e.u.Timestamp) : e \in issued } :
           arg' = [arg EXCEPT ![t] = timestamp]
    /\ pc' = [pc EXCEPT ![t] = "add"]
    /\ UNCHANGED <<phase, hwAddr, seqNo, hwSrc, seedSrc, seed, calls, got,
                   issued, bulks, codec>>

\* seqNo: atomic.AddUint32(&seqNo, 1)   -- one atomic step
Add(t) ==
    /\ pc[t] = "add"
    /\ seqNo' = AddUint32(seqNo, One32)
    /\ calls' = Inc5(calls)
    /\ got' = [got EXCEPT ![t] = [seq |-> seqNo', n |-> calls']]
    /\ pc' = [pc EXCEPT ![t] = "ret"]
    /\ UNCHANGED <<phase, hwAddr, hwSrc, seedSrc, seed, arg, issued, bulks, codec>>

\* hwAddr: hwAddr, and the return of the struct.
Return(t) ==
    /\ pc[t] = "ret"
    /\ issued' = issued \cup
                 { [u |-> NewUniqueTimestamp(arg[t], got[t].seq, hwAddr), n |-> got[t].n] }
    /\ pc' = [pc EXCEPT ![t] = "idle"]
    /\ arg' = [arg EXCEPT ![t] = Zero8]                 \* the call's frame is gone
    /\ got' = [got EXCEPT ![t] = [seq |-> Zero4, n |-> Zero5]]
    /\ UNCHANGED <<phase, hwAddr, seqNo, hwSrc, seedSrc, seed, calls, bulks, codec>>

\* k further calls of NewUniqueTimestamp whose results are dropped (a process
\* that has been running for long): k atomic additions of 1, taken in one
\* step while no observed call is under way.
Bulk ==
    /\ phase = "ready"
    /\ Idle
    /\ codec.op = "none"
    /\ bulks < MaxBulk
    /\ \E k \in BulkSizes :
        /\ seqNo' = AddUint32(seqNo, k)
        /\ calls' = AddCarry(calls, <<0>> \o k, 0)
    /\ bulks' = bulks + 1
    /\ UNCHANGED <<phase, hwAddr, hwSrc, seedSrc, seed, pc, arg, got, issued, codec>>

\* ------------------------------------------------------------------- codec
\* The identifiers the callers hold.
Held == { e.u : e \in issued }

\* s := u.String()
Encode ==
    /\ Idle
    /\ codec.op = "none"
    /\ \E u \in Held :
           codec' = [NoCodec EXCEPT !.op = "String", !.u = u, !.s = String(u)]
    /\ UNCHANGED genVars

\* t2 := UniqueTimestamp{}; err := t2.FromString(s) on the string just made.
Decode ==
    /\ codec.op = "String"
    /\ codec' = [codec EXCEPT !.op = "RoundTrip", !.val = codec.s,
                              !.res = FromString(ZeroU, codec.s)]
    /\ UNCHANGED genVars

Next ==
    \/ RunInit
    \/ \E t \in Threads : Call(t)
    \/ \E t \in Threads : Add(t)
    \/ \E t \in Threads : Return(t)
    \/ Bulk
    \/ Encode
    \/ Decode

Spec == Init /\ [][Next]_vars

\* ---------------------------------------------- FromString on any string
\* FromString reads nothing of the process state: it is checked on its own,
\* over the strings of ParseSamples.
InitParse ==
    /\ phase = "boot"
    /\ hwAddr = Zero6
    /\ seqNo = Zero4
    /\ hwSrc = "unset"
    /\ seedSrc = "unset"
    /\ seed = Zero4
    /\ calls = Zero5
    /\ pc = [t \in Threads |-> "idle"]
    /\ arg = [t \in Threads |-> Zero8]
    /\ got = [t \in Threads |-> [seq |-> Zero4, n |-> Zero5]]
    /\ issued = {}
    /\ bulks = 0
    /\ \E val \in ParseSamples : codec = [NoCodec EXCEPT !.op = "input", !.val = val]

\* t2 := UniqueTimestamp{}; err := t2.FromString(val)
Parse ==
    /\ codec.op = "input"
    /\ codec' = [codec EXCEPT !.op = "FromString", !.res = FromString(ZeroU, codec.val)]
    /\ UNCHANGED genVars

NextParse == Parse

SpecParse == InitParse /\ [][NextParse]_vars

\* ================================================================== claims
\* Every value atomic.AddUint32 has handed to an observed call, with the
\* call's ordinal: the identifiers returned and the calls about to return.
Returned ==
    { [seq |-> e.u.seqNo, n |-> e.n] : e \in issued }
    \cup { got[t] : t \in { x \in Threads : pc[x] = "ret" } }

\* seed + n modulo 2^32, for a 5-byte count n.
SeedPlus(n) == SubSeq(AddCarry(<<0>> \o seed, n, 0), 2, 5)

\* The low 48 bits of a timestamp, as an int64.
Low48(ts) == <<0, 0>> \o SubSeq(ts, 3, 8)

\* The hex digits (values 0..15) of a byte tuple, most significant first.
Nibbles(bytes) ==
    [k \in 1..(2 * Len(bytes)) |->
        IF k % 2 = 1 THEN bytes[(k + 1) \div 2] \div 16 ELSE bytes[k \div 2] % 16]

\* C1: while fewer than 2^32 calls have been made, under every interleaving
\* the calls made so far hold pairwise distinct sequence values, and the
\* counter equals its initial value plus the number of calls (uint32
\* addition).
C1_ConcurrentCallsDistinct ==
    calls[1] = 0 =>
        /\ \A a, b \in Returned : a.n # b.n => a.seq # b.seq
        /\ Cardinality({ r.n : r \in Returned }) = Cardinality(Returned)
        /\ seqNo = SeedPlus(calls)

\* Two calls are past the atomic addition at once and neither has returned.
C1_Witness ==
    /\ calls[1] = 0
    /\ \E t1, t2 \in Threads : t1 # t2 /\ pc[t1] = "ret" /\ pc[t2] = "ret"

\* C2: for two issued identifiers of the same timestamp, the order of the
\* strings is the order of the (sequence, discriminator) pairs, big-endian,
\* sequence first; so different sequences give different strings.
C2_StringOrderIsPairOrder ==
    \A a, b \in Held :
        a.Timestamp = b.Timestamp =>
            (StrLess(String(a), String(b))
                <=> StrLess(a.seqNo \o a.hwAddr, b.seqNo \o b.hwAddr))

\* C3: the string of every issued identifier lies strictly between the
\* strings of the minimum and the maximum bound of its timestamp.
C3_BoundSandwich ==
    \A e \in issued :
        /\ StrLess(String(MinUniqueTimestamp(e.u.Timestamp)), String(e.u))
        /\ StrLess(String(e.u), String(MaxUniqueTimestamp(e.u.Timestamp)))

\* The three orderings of C4 for an identifier e1 of timestamp t and an
\* identifier e2 of timestamp t + 1.
OrderedAcross(e1, e2) ==
    /\ StrLess(String(e1), String(e2))
    /\ StrLess(String(MaxUniqueTimestamp(e1.Timestamp)), String(e2))
    /\ StrLess(String(e1), String(MinUniqueTimestamp(e2.Timestamp)))

\* C4 as stated: for every 64-bit timestamp t, an identifier of t and one
\* of t + 1 are ordered, also against the bounds.
C4_OrderAcrossAnyTimestamp ==
    \A e1, e2 \in Held :
        e2.Timestamp = Succ64(e1.Timestamp) => OrderedAcross(e1, e2)

\* C4 amended: the same, for every t whose low 48 bits are not all ones.
C4_OrderAcrossTimestamps ==
    \A e1, e2 \in Held :
        (e2.Timestamp = Succ64(e1.Timestamp) /\ SubSeq(e1.Timestamp, 3, 8) # Ones6)
            => OrderedAcross(e1, e2)

\* Identifiers of a negative t and of t + 1 have been issued.
C4_Witness ==
    \E e1, e2 \in Held :
        /\ e2.Timestamp = Succ64(e1.Timestamp)
        /\ SubSeq(e1.Timestamp, 3, 8) # Ones6
        /\ e1.Timestamp[1] = 255

\* C5: parsing the string of an issued identifier succeeds and yields its
\* timestamp modulo 2^48.
C5_TimestampRoundTrip ==
    codec.op = "RoundTrip" =>
        /\ codec.res.err = "nil"
        /\ ~codec.res.panicked
        /\ codec.res.u.Timestamp = Low48(codec.u.Timestamp)

\* The string of an identifier whose timestamp does not fit 48 bits has
\* been parsed back.
C5_Witness ==
    /\ codec.op = "RoundTrip"
    /\ codec.u \in Held
    /\ codec.u.Timestamp # Low48(codec.u.Timestamp)

\* C6: parsing the string of an issued identifier yields its sequence and
\* its discriminator.
C6_FieldsRoundTrip ==
    codec.op = "RoundTrip" =>
        /\ codec.res.u.seqNo = codec.u.seqNo
        /\ codec.res.u.hwAddr = codec.u.hwAddr

\* The wire format of C7: 12 timestamp digits, '-', 8 sequence digits, '-',
\* 12 discriminator digits.
WireFormat(u) ==
    Join3(Hex(Nibbles(SubSeq(u.Timestamp, 3, 8))), Hex(Nibbles(u.seqNo)),
          Hex(Nibbles(u.hwAddr)))

\* C7: String() of an issued identifier and of the bounds of its timestamp
\* is the 34 characters of the wire format.
C7_WireFormat ==
    \A e \in issued :
        \A u \in { e.u, MinUniqueTimestamp(e.u.Timestamp), MaxUniqueTimestamp(e.u.Timestamp) } :
            /\ Len(String(u)) = 34
            /\ String(u) = WireFormat(u)

\* C8 as stated: the counter only ever grows, so a later call returns a
\* greater value than every earlier one and no value is returned twice, for
\* any number of calls.
C8_StrictlyIncreasingForever ==
    \A a, b \in Returned : StrLess(a.n, b.n) => StrLess(a.seq, b.seq)

\* C8 amended: the n-th call returns the seed plus n modulo 2^32, and a value
\* is not returned again by any of the 2^32 - 1 calls that follow.
C8_IncrementModulo ==
    /\ \A a \in Returned : a.seq = SeedPlus(a.n)
    /\ \A a, b \in Returned :
           (StrLess(a.n, b.n) /\ StrLess(b.n, AddCarry(a.n, <<1, 0, 0, 0, 0>>, 0)))
               => a.seq # b.seq

\* Two calls fewer than 2^32 apart with the counter wrapping between them.
C8_Witness ==
    \E a, b \in Returned :
        /\ StrLess(a.n, b.n)
        /\ StrLess(b.n, AddCarry(a.n, <<1, 0, 0, 0, 0>>, 0))
        /\ StrLess(b.seq, a.seq)

\* C9: a string of three parts whose first two parts parse and whose third
\* part is not 12 characters long makes FromString return an error.
C9_ThirdPartLengthRejected ==
    (/\ codec.op = "FromString"
     /\ Len(Split(codec.val)) = 3
     /\ ParseInt(Split(codec.val)[1]).ok
     /\ ParseUint(Split(codec.val)[2], 32).ok
     /\ Len(Split(codec.val)[3]) # 12)
        => (codec.res.err # "nil" /\ ~codec.res.panicked)

\* C10: a failed read of the random source aborts init(), and identifiers
\* are only issued from a seed and a discriminator that were filled.
C10_EntropyFailureFatal ==
    /\ seedSrc = "failed" => phase = "panicked"
    /\ issued # {} => (seedSrc = "random" /\ hwSrc \in {"interface", "random"})

====
